---- MODULE Spec2Model ----
(***************************************************************************)
(* A model of isort.py (isort 2.6.0): the SortImports engine that parses a *)
(* file's lines, files its imports into section buckets, renders them      *)
(* sorted at the position of the first import and normalises the end of    *)
(* the file; plus the pure helpers place_module, _module_key and the wrap  *)
(* renderers.                                                              *)
(*                                                                         *)
(* A Python str is modelled as a sequence of one-character strings, so     *)
(* that find, replace, split, strip and slicing are computed as Python     *)
(* computes them.  Python indices are kept 0-based, as in the source.      *)
(***************************************************************************)
EXTENDS Integers, Sequences, FiniteSets, TLC

(***************************************************************************)
(* Bounds of the model.                                                    *)
(***************************************************************************)
\* the longest input file, in lines (file_contents.split('\n'))
MaxLines == 2

\* the longest symbol list handed to a wrap renderer
MaxSymbols == 3

(***************************************************************************)
(* Python str, list and slice primitives.                                  *)
(***************************************************************************)
Min(a, b) == IF a < b THEN a ELSE b

Max(a, b) == IF a > b THEN a ELSE b

Range(s) == {s[i] : i \in DOMAIN s}

\* s[a:b] for 0 <= a, with Python's clipping of b
PySlice(s, a, b) == SubSeq(s, a + 1, Min(b, Len(s)))

\* s[:b], where a negative b counts from the end
PyPrefix(s, b) == IF b < 0 THEN SubSeq(s, 1, Max(Len(s) + b, 0)) ELSE SubSeq(s, 1, Min(b, Len(s)))

\* s[i], where a negative i counts from the end (the caller checks the range)
PyItem(s, i) == IF i < 0 THEN s[Len(s) + i + 1] ELSE s[i + 1]

\* whether s[i] raises IndexError
PyItemRaises(s, i) == IF i < 0 THEN Len(s) + i < 0 ELSE i >= Len(s)

StartsWith(s, p) == Len(s) >= Len(p) /\ SubSeq(s, 1, Len(p)) = p

EndsWith(s, p) == Len(s) >= Len(p) /\ SubSeq(s, Len(s) - Len(p) + 1, Len(s)) = p

\* s.find(sub): the 0-based position of the first occurrence, or -1
Find(s, sub) ==
    LET hits == {i \in 0..(Len(s) - Len(sub)) : SubSeq(s, i + 1, i + Len(sub)) = sub}
    IN  IF hits = {} THEN -1 ELSE CHOOSE i \in hits : \A j \in hits : i <= j

\* sub in s
Contains(s, sub) == Find(s, sub) # -1

\* list.index(x) for a list known to hold x
ListIndex(l, x) == (CHOOSE i \in DOMAIN l : l[i] = x /\ \A j \in DOMAIN l : l[j] = x => i <= j) - 1

RECURSIVE Replace(_, _, _)
\* s.replace(old, new): left to right, occurrences do not overlap
Replace(s, old, new) ==
    LET i == Find(s, old)
    IN  IF i = -1 THEN s
        ELSE SubSeq(s, 1, i) \o new \o Replace(SubSeq(s, i + Len(old) + 1, Len(s)), old, new)

IsSpace(c) == c \in {" ", "\t", "\n", "\r", "\f"}

RECURSIVE LStrip(_)
LStrip(s) == IF s # <<>> /\ IsSpace(s[1]) THEN LStrip(Tail(s)) ELSE s

RECURSIVE RStrip(_)
RStrip(s) == IF s # <<>> /\ IsSpace(s[Len(s)]) THEN RStrip(SubSeq(s, 1, Len(s) - 1)) ELSE s

\* s.strip()
Strip(s) == RStrip(LStrip(s))

RECURSIVE SplitOn(_, _)
\* s.split(c) for a one-character separator: always at least one piece
SplitOn(s, c) ==
    LET i == Find(s, <<c>>)
    IN  IF i = -1 THEN <<s>>
        ELSE <<SubSeq(s, 1, i)>> \o SplitOn(SubSeq(s, i + 2, Len(s)), c)

RECURSIVE SplitWs(_)
\* s.split(): the maximal runs of non-whitespace characters
SplitWs(s) ==
    LET t == LStrip(s)
        ends == {i \in 1..Len(t) : IsSpace(t[i])}
        stop == IF ends = {} THEN Len(t) + 1 ELSE CHOOSE i \in ends : \A j \in ends : i <= j
    IN  IF t = <<>> THEN <<>>
        ELSE <<SubSeq(t, 1, stop - 1)>> \o SplitWs(SubSeq(t, stop, Len(t)))

RECURSIVE Join(_, _)
\* sep.join(parts)
Join(parts, sep) ==
    IF parts = <<>> THEN <<>>
    ELSE IF Len(parts) = 1 THEN parts[1]
    ELSE parts[1] \o sep \o Join(Tail(parts), sep)

\* the printable ASCII characters in code-point order, from 32 (space) to 126
\* (code point 96, the grave accent, is held by a name: no line of the model uses it)
Ascii == <<
    " ", "!", "\"", "#", "$", "%", "&", "'", "(", ")", "*", "+", ",", "-", ".", "/",
    "0", "1", "2", "3", "4", "5", "6", "7", "8", "9", ":", ";", "<", "=", ">", "?",
    "@", "A", "B", "C", "D", "E", "F", "G", "H", "I", "J", "K", "L", "M", "N", "O",
    "P", "Q", "R", "S", "T", "U", "V", "W", "X", "Y", "Z", "[", "\\", "]", "^", "_",
    "grave", "a", "b", "c", "d", "e", "f", "g", "h", "i", "j", "k", "l", "m", "n", "o",
    "p", "q", "r", "s", "t", "u", "v", "w", "x", "y", "z", "{", "|", "}", "~" >>

\* ord(c), for the characters a source line of the model holds
Ord(c) ==
    IF c = "\n" THEN 10
    ELSE IF c = "\t" THEN 9
    ELSE 31 + CHOOSE i \in DOMAIN Ascii : Ascii[i] = c

\* c.lower() for one character
LowerChar(c) == IF Ord(c) >= 65 /\ Ord(c) <= 90 THEN Ascii[Ord(c) + 1] ELSE c

\* s.lower()
Lower(s) == [i \in DOMAIN s |-> LowerChar(s[i])]

RECURSIVE StrLess(_, _)
\* s < t, Python's comparison of two str: by code point, a proper prefix first
StrLess(s, t) ==
    IF t = <<>> THEN FALSE
    ELSE IF s = <<>> THEN TRUE
    ELSE IF s[1] = t[1] THEN StrLess(Tail(s), Tail(t))
    ELSE Ord(s[1]) < Ord(t[1])

StrLessEq(s, t) == s = t \/ StrLess(s, t)

RECURSIVE Digits(_)
\* str(n) for n >= 0
Digits(n) == IF n < 10 THEN <<Ascii[17 + n]>> ELSE Digits(n \div 10) \o <<Ascii[17 + (n % 10)]>>

(***************************************************************************)
(* Sections, wrap modes and the configuration.                             *)
(***************************************************************************)
SECTION_NAMES == <<"FUTURE", "STDLIB", "THIRDPARTY", "FIRSTPARTY", "LOCALFOLDER">>

\* SECTIONS: the namedtuple of range(len(SECTION_NAMES)); a section is its number
SECTIONS == [name \in Range(SECTION_NAMES) |-> (CHOOSE i \in DOMAIN SECTION_NAMES : SECTION_NAMES[i] = name) - 1]

WrapModes == <<"GRID", "VERTICAL", "HANGING_INDENT", "VERTICAL_HANGING_INDENT", "VERTICAL_GRID",
               "VERTICAL_GRID_GROUPED">>

\* default['known_standard_library']
known_standard_library == {
    <<"a","b","c">>, <<"a","n","y","d","b","m">>, <<"a","r","g","p","a","r","s","e">>,
    <<"a","r","r","a","y">>, <<"a","s","y","n","c","h","a","t">>, <<"a","s","y","n","c","o","r","e">>,
    <<"a","t","e","x","i","t">>, <<"b","a","s","e","6","4">>,
    <<"B","a","s","e","H","T","T","P","S","e","r","v","e","r">>, <<"b","i","s","e","c","t">>,
    <<"b","z","2">>, <<"c","a","l","e","n","d","a","r">>, <<"c","g","i","t","b">>, <<"c","m","d">>,
    <<"c","o","d","e","c","s">>, <<"c","o","l","l","e","c","t","i","o","n","s">>,
    <<"c","o","m","m","a","n","d","s">>, <<"c","o","m","p","i","l","e","a","l","l">>,
    <<"C","o","n","f","i","g","P","a","r","s","e","r">>, <<"c","o","n","t","e","x","t","l","i","b">>,
    <<"C","o","o","k","i","e">>, <<"c","o","p","y">>, <<"c","P","i","c","k","l","e">>,
    <<"c","P","r","o","f","i","l","e">>, <<"c","S","t","r","i","n","g","I","O">>, <<"c","s","v">>,
    <<"d","a","t","e","t","i","m","e">>, <<"d","b","h","a","s","h">>, <<"d","b","m">>,
    <<"d","e","c","i","m","a","l">>, <<"d","i","f","f","l","i","b">>, <<"d","i","r","c","a","c","h","e">>,
    <<"d","i","s">>, <<"d","o","c","t","e","s","t">>, <<"d","u","m","b","d","b","m">>,
    <<"E","a","s","y","D","i","a","l","o","g","s">>, <<"e","r","r","n","o">>,
    <<"e","x","c","e","p","t","i","o","n","s">>, <<"f","i","l","e","c","m","p">>,
    <<"f","i","l","e","i","n","p","u","t">>, <<"f","n","m","a","t","c","h">>,
    <<"f","r","a","c","t","i","o","n","s">>, <<"f","u","n","c","t","o","o","l","s">>, <<"g","c">>,
    <<"g","d","b","m">>, <<"g","e","t","o","p","t">>, <<"g","e","t","p","a","s","s">>,
    <<"g","e","t","t","e","x","t">>, <<"g","l","o","b">>, <<"g","r","p">>, <<"g","z","i","p">>,
    <<"h","a","s","h","l","i","b">>, <<"h","e","a","p","q">>, <<"h","m","a","c">>,
    <<"i","m","a","p","l","i","b">>, <<"i","m","p">>, <<"i","n","s","p","e","c","t">>,
    <<"i","t","e","r","t","o","o","l","s">>, <<"j","s","o","n">>, <<"l","i","n","e","c","a","c","h","e">>,
    <<"l","o","c","a","l","e">>, <<"l","o","g","g","i","n","g">>, <<"m","a","i","l","b","o","x">>,
    <<"m","a","t","h">>, <<"m","h","l","i","b">>, <<"m","m","a","p">>,
    <<"m","u","l","t","i","p","r","o","c","e","s","s","i","n","g">>, <<"o","p","e","r","a","t","o","r">>,
    <<"o","p","t","p","a","r","s","e">>, <<"o","s">>, <<"p","d","b">>, <<"p","i","c","k","l","e">>,
    <<"p","i","p","e","s">>, <<"p","k","g","u","t","i","l">>, <<"p","l","a","t","f","o","r","m">>,
    <<"p","l","i","s","t","l","i","b">>, <<"p","p","r","i","n","t">>, <<"p","r","o","f","i","l","e">>,
    <<"p","s","t","a","t","s">>, <<"p","w","d">>, <<"p","y","c","l","b","r">>, <<"p","y","d","o","c">>,
    <<"Q","u","e","u","e">>, <<"r","a","n","d","o","m">>, <<"r","e">>, <<"r","e","a","d","l","i","n","e">>,
    <<"r","e","s","o","u","r","c","e">>, <<"r","l","c","o","m","p","l","e","t","e","r">>,
    <<"r","o","b","o","t","p","a","r","s","e","r">>, <<"s","c","h","e","d">>, <<"s","e","l","e","c","t">>,
    <<"s","h","e","l","v","e">>, <<"s","h","l","e","x">>, <<"s","h","u","t","i","l">>,
    <<"s","i","g","n","a","l">>, <<"S","i","m","p","l","e","X","M","L","R","P","C","S","e","r","v","e","r">>,
    <<"s","i","t","e">>, <<"s","i","t","e","c","u","s","t","o","m","i","z","e">>, <<"s","m","t","p","d">>,
    <<"s","m","t","p","l","i","b">>, <<"s","o","c","k","e","t">>,
    <<"S","o","c","k","e","t","S","e","r","v","e","r">>, <<"s","q","l","i","t","e","3">>,
    <<"s","t","r","i","n","g">>, <<"S","t","r","i","n","g","I","O">>, <<"s","t","r","u","c","t">>,
    <<"s","u","b","p","r","o","c","e","s","s">>, <<"s","y","s">>, <<"s","y","s","c","o","n","f","i","g">>,
    <<"t","a","b","n","a","n","n","y">>, <<"t","a","r","f","i","l","e">>,
    <<"t","e","m","p","f","i","l","e">>, <<"t","e","x","t","w","r","a","p">>,
    <<"t","h","r","e","a","d","i","n","g">>, <<"t","i","m","e">>, <<"t","i","m","e","i","t">>,
    <<"t","r","a","c","e">>, <<"t","r","a","c","e","b","a","c","k">>, <<"u","n","i","t","t","e","s","t">>,
    <<"u","r","l","l","i","b">>, <<"u","r","l","l","i","b","2">>, <<"u","r","l","p","a","r","s","e">>,
    <<"u","s","e","r","c","u","s","t","o","m","i","z","e">>, <<"u","u","i","d">>,
    <<"w","a","r","n","i","n","g","s">>, <<"w","e","a","k","r","e","f">>,
    <<"w","e","b","b","r","o","w","s","e","r">>, <<"w","h","i","c","h","d","b">>, <<"x","m","l">>,
    <<"x","m","l","r","p","c","l","i","b">>, <<"z","i","p","f","i","l","e">>,
    <<"z","i","p","i","m","p","o","r","t">>, <<"z","l","i","b">> }

\* the settings SortImports reads when no override is given
default ==
    [force_to_top |-> {},
     line_length |-> 80,
     known_standard_library |-> known_standard_library,
     known_third_party |-> {<<"g","o","o","g","l","e",".","a","p","p","e","n","g","i","n","e",".","a","p","i">>},
     known_first_party |-> {},
     multi_line_output |-> "GRID",
     forced_separate |-> <<>>,
     indent |-> <<" ", " ", " ", " ">>,
     length_sort |-> FALSE,
     add_imports |-> <<>>,
     remove_imports |-> {},
     default_section |-> "FIRSTPARTY"]

\* the forced-separate sections rendered before the numbered ones
SectionKeys_forced_first(config) ==
    [i \in 1..(Len(SECTION_NAMES) + Len(config.forced_separate)) |->
        IF i <= Len(config.forced_separate) THEN Len(SECTION_NAMES) + i - 1
        ELSE i - Len(config.forced_separate) - 1]

\* the keys of self.imports, in rendering order: itertools.chain(SECTIONS,
\* config['forced_separate']).  The code keys a forced-separate section by its
\* prefix string; the model keys the k-th configured prefix by 4 + k, after the
\* five numbered sections.
SectionKeys(config) ==
    [i \in 1..(Len(SECTION_NAMES) + Len(config.forced_separate)) |-> i - 1]

\* the key of the forced-separate section whose prefix is the k-th configured one
ForcedKey(k) == Len(SECTION_NAMES) + k - 1

(***************************************************************************)
(* place_module: the section of a module name.                             *)
(***************************************************************************)
\* the module search path of the run: the loop over PYTHONPATH visits these
\* prefixes; a prefix is modelled by the section the loop returns when a file
\* or package of the module is found under it ("none": nothing found there)
PYTHONPATH == <<>>

RECURSIVE ProbePath(_)
ProbePath(path) ==
    IF path = <<>> THEN "none"
    ELSE IF path[1] # "none" THEN path[1]
    ELSE ProbePath(Tail(path))

\* firstPart is None (modelled <<>>) or a str (modelled <<str>>)
place_module(moduleName, config, path) ==
    LET index == Find(moduleName, <<".">>)
        firstPart == IF index # 0 THEN <<PyPrefix(moduleName, index)>> ELSE <<>>
        known(table) == moduleName \in table \/ (firstPart # <<>> /\ firstPart[1] \in table)
        forced == {k \in DOMAIN config.forced_separate : StartsWith(moduleName, config.forced_separate[k])}
        probe == ProbePath(path)
    IN  IF StartsWith(moduleName, <<".">>) THEN SECTIONS["LOCALFOLDER"]
        ELSE IF forced # {} THEN ForcedKey(CHOOSE k \in forced : \A j \in forced : k <= j)
        ELSE IF moduleName = <<"_","_","f","u","t","u","r","e","_","_">> \/ firstPart = <<<<"_","_","f","u","t","u","r","e","_","_">>>> THEN SECTIONS["FUTURE"]
        ELSE IF known(config.known_standard_library) THEN SECTIONS["STDLIB"]
        ELSE IF known(config.known_third_party) THEN SECTIONS["THIRDPARTY"]
        ELSE IF known(config.known_first_party) THEN SECTIONS["FIRSTPARTY"]
        ELSE IF probe # "none" THEN SECTIONS[probe]
        ELSE SECTIONS[config.default_section]

(***************************************************************************)
(* The line-level helpers of the parser.                                   *)
(***************************************************************************)
\* _import_type: "straight", "from", or "none" for Python's None
_import_type(line) ==
    IF Contains(line, <<"i","s","o","r","t",":","s","k","i","p">>) THEN "none"
    ELSE IF StartsWith(line, <<"i","m","p","o","r","t"," ">>) THEN "straight"
    ELSE IF StartsWith(line, <<"f","r","o","m"," ">>) /\ Contains(line, <<"i","m","p","o","r","t">>) THEN "from"
    ELSE "none"

\* _strip_comments: the line up to its first '#'
_strip_comments(line) ==
    LET comment_start == Find(line, <<"#">>)
    IN  IF comment_start # -1 THEN PyPrefix(line, comment_start) ELSE line

RECURSIVE QuoteScan(_, _, _)
\* the character loop of _parse (lines 349-364) from 0-based position index;
\* in_quote is <<>> for False, or the delimiter of the open string
QuoteScan(line, index, in_quote) ==
    IF index >= Len(line) THEN in_quote
    ELSE IF line[index + 1] = "\\" THEN QuoteScan(line, index + 2, in_quote)
    ELSE IF in_quote # <<>>
         THEN QuoteScan(line, index + 1,
                        IF PySlice(line, index, index + Len(in_quote)) = in_quote THEN <<>> ELSE in_quote)
    ELSE IF line[index + 1] \in {"'", "\""}
         THEN LET long_quote == PySlice(line, index, index + 3)
              IN  IF long_quote \in {<<"\"", "\"", "\"">>, <<"'", "'", "'">>}
                  THEN QuoteScan(line, index + 3, long_quote)
                  ELSE QuoteScan(line, index + 1, <<line[index + 1]>>)
    ELSE IF line[index + 1] = "#" THEN in_quote
    ELSE QuoteScan(line, index + 1, in_quote)

\* in_quote after a line (lines 347-364)
QuoteAfter(line, in_quote) ==
    IF "\"" \in Range(line) \/ "'" \in Range(line) THEN QuoteScan(line, 0, in_quote) ELSE in_quote

(***************************************************************************)
(* _module_key and sorted().                                               *)
(***************************************************************************)
\* the key taken from the name as written, not lowered
_module_key_no_lower(module_name, config) ==
    (IF module_name \in config.force_to_top THEN <<"A">> ELSE <<"B">>)
    \o (IF config.length_sort THEN Digits(Len(module_name)) \o <<":">> \o module_name ELSE module_name)

\* the sort key of a name: 'A' or 'B', then the length-prefixed or plain lowered name
_module_key(module_name, config) ==
    LET name == Lower(module_name)
    IN  (IF name \in config.force_to_top THEN <<"A">> ELSE <<"B">>)
        \o (IF config.length_sort THEN Digits(Len(name)) \o <<":">> \o name ELSE name)

RECURSIVE Sorted(_, _)
\* sorted(list(names), key=_module_key): the lists the call can return.  Names
\* with different keys come in key order; names with equal keys keep the order
\* in which the set was iterated, which Python leaves unspecified.
Sorted(names, config) ==
    IF names = {} THEN {<<>>}
    ELSE LET least == {n \in names : \A m \in names : StrLessEq(_module_key(n, config), _module_key(m, config))}
         IN  UNION {{<<n>> \o rest : rest \in Sorted(names \ {n}, config)} : n \in least}

(***************************************************************************)
(* _parse: one statement.                                                  *)
(***************************************************************************)
RECURSIVE ConsumeParenthesised(_, _, _, _)
\* lines 376-378: read on until a line ends with ')' or the file ends
ConsumeParenthesised(lines, line, import_string, index) ==
    IF ~EndsWith(Strip(line), <<")">>) /\ index # Len(lines)
    THEN LET next == _strip_comments(lines[index + 1])
         IN  ConsumeParenthesised(lines, next, import_string \o <<"\n">> \o next, index + 1)
    ELSE [import_string |-> import_string, index |-> index, raised |-> FALSE]

RECURSIVE ConsumeContinued(_, _, _, _)
\* lines 380-382: read on while the line ends with a backslash; _get_line
\* raises IndexError when no line is left
ConsumeContinued(lines, line, import_string, index) ==
    IF EndsWith(Strip(line), <<"\\">>)
    THEN IF index >= Len(lines)
         THEN [import_string |-> import_string, index |-> index, raised |-> TRUE]
         ELSE LET next == _strip_comments(lines[index + 1])
              IN  ConsumeContinued(lines, next, import_string \o <<"\n">> \o next, index + 1)
    ELSE [import_string |-> import_string, index |-> index, raised |-> FALSE]

\* lines 374-382: the logical statement that starts at `line`, with index
\* already past that line
ExtractStatement(lines, line, index) ==
    IF "(" \in Range(line) /\ index # Len(lines)
    THEN ConsumeParenthesised(lines, line, _strip_comments(line), index)
    ELSE ConsumeContinued(lines, line, _strip_comments(line), index)

RECURSIVE RemoveSyntax(_, _)
RemoveSyntax(import_string, syntax) ==
    IF syntax = <<>> THEN import_string
    ELSE RemoveSyntax(Replace(import_string, syntax[1], <<" ">>), Tail(syntax))

\* lines 384-389: the tokens of a statement
Tokens(import_string) ==
    LET protected == Replace(import_string, <<"_","i","m","p","o","r","t">>, <<"[","[","i","]","]">>)
        removed == RemoveSyntax(protected, <<<<"\\">>, <<"(">>, <<")">>, <<",">>, <<"f","r","o","m"," ">>, <<"i","m","p","o","r","t"," ">>>>)
    IN  SplitWs(Replace(removed, <<"[","[","i","]","]">>, <<"_","i","m","p","o","r","t">>))

AS == <<"a", "s">>

RECURSIVE AsLoop(_, _, _)
\* lines 391-398: record and remove every `as` pair; imports[index + 1] raises
\* IndexError when `as` has become the last token
AsLoop(imports, map, import_type) ==
    IF AS \notin Range(imports) THEN [imports |-> imports, as_map |-> map, raised |-> FALSE]
    ELSE LET index == ListIndex(imports, AS)
         IN  IF PyItemRaises(imports, index + 1)
             THEN [imports |-> imports, as_map |-> map, raised |-> TRUE]
             ELSE LET key == IF import_type = "from"
                             THEN imports[1] \o <<".">> \o PyItem(imports, index - 1)
                             ELSE PyItem(imports, index - 1)
                      alias == imports[index + 2]
                  IN  AsLoop(SubSeq(imports, 1, index) \o SubSeq(imports, index + 3, Len(imports)),
                             [k \in DOMAIN map \cup {key} |-> IF k = key THEN alias ELSE map[k]],
                             import_type)

\* lines 390-398
Aliases(imports, map, import_type) ==
    IF AS \in Range(imports) /\ ListIndex(imports, AS) + 1 < Len(imports)
    THEN AsLoop(imports, map, import_type)
    ELSE [imports |-> imports, as_map |-> map, raised |-> FALSE]

\* lines 399-408: file a from-import; root is the section's 'from' dict
AddFrom(buckets, section, import_from, symbols) ==
    LET root == buckets[section].from
        merged == IF import_from \in DOMAIN root /\ root[import_from] # {}
                  THEN root[import_from] \cup symbols
                  ELSE symbols
    IN  [buckets EXCEPT ![section].from =
            [m \in DOMAIN root \cup {import_from} |-> IF m = import_from THEN merged ELSE root[m]]]

RECURSIVE AddStraight(_, _, _, _)
\* lines 410-412
AddStraight(buckets, modules, config, path) ==
    IF modules = <<>> THEN buckets
    ELSE AddStraight([buckets EXCEPT ![place_module(modules[1], config, path)].straight = @ \cup {modules[1]}],
                     Tail(modules), config, path)

(***************************************************************************)
(* The wrap renderers.                                                     *)
(***************************************************************************)
\* len(statement.split('\n')[-1])
LastLineLen(statement) == LET lines == SplitOn(statement, "\n") IN Len(lines[Len(lines)])

RECURSIVE GridLoop_no_room_for_closer(_, _, _, _)
\* the loop without the one character kept for the comma or parenthesis that follows
GridLoop_no_room_for_closer(statement, imports, white_space, line_length) ==
    IF imports = <<>> THEN statement
    ELSE LET next_import == imports[1]
             next_statement == statement \o <<",", " ">> \o next_import
         IN  GridLoop_no_room_for_closer(
                 IF LastLineLen(next_statement) > line_length
                 THEN statement \o <<",", "\n">> \o white_space \o next_import
                 ELSE next_statement,
                 Tail(imports), white_space, line_length)

RECURSIVE GridLoop(_, _, _, _)
\* the while loop shared by _output_grid (lines 434-442, which wraps to
\* white_space) and _output_vertical_grid_common (lines 480-488, which wraps
\* to indent): the next symbol joins the line if one more character still fits
GridLoop(statement, imports, white_space, line_length) ==
    IF imports = <<>> THEN statement
    ELSE LET next_import == imports[1]
             next_statement == statement \o <<",", " ">> \o next_import
         IN  GridLoop(IF LastLineLen(next_statement) + 1 > line_length
                      THEN statement \o <<",", "\n">> \o white_space \o next_import
                      ELSE next_statement,
                      Tail(imports), white_space, line_length)

_output_grid(statement, imports, white_space, indent, line_length) ==
    GridLoop(statement \o <<"(">> \o imports[1], Tail(imports), white_space, line_length) \o <<")">>

_output_vertical_grid_common(statement, imports, white_space, indent, line_length) ==
    GridLoop(statement \o <<"(", "\n">> \o indent \o imports[1], Tail(imports), indent, line_length)

_output_vertical_grid(statement, imports, white_space, indent, line_length) ==
    _output_vertical_grid_common(statement, imports, white_space, indent, line_length) \o <<")">>

_output_vertical_grid_grouped(statement, imports, white_space, indent, line_length) ==
    _output_vertical_grid_common(statement, imports, white_space, indent, line_length) \o <<"\n", ")">>

(***************************************************************************)
(* The inputs of the model.                                                *)
(***************************************************************************)
\* the lines an input file is made of
SourceLines == {
    <<>>,                                                                    \* ''
    <<" ","x"," ">>,                                                         \* ' x '
    <<"d","e","f"," ","f">>,                                                 \* 'def f'
    <<"i","m","p","o","r","t"," ","o","s">>,                                 \* 'import os'
    <<"i","m","p","o","r","t"," ","B",","," ","A",","," ","a">>,             \* 'import B, A, a'
    <<"f","r","o","m"," ","a"," ","i","m","p","o","r","t"," ","c",","," ","b">>, \* 'from a import c, b'
    <<"f","r","o","m"," ","a"," ","i","m","p","o","r","t"," ","b">>,         \* 'from a import b'
    <<"f","r","o","m"," ","a"," ","i","m","p","o","r","t"," ","b"," ","a","s"," ","d">>, \* 'from a import b as d'
    <<"i","m","p","o","r","t"," ","a"," ","a","s"," ","b">>,                 \* 'import a as b'
    <<"i","m","p","o","r","t"," ","a"," ","a","s"," ","b"," ","a","s">>,     \* 'import a as b as'
    <<"f","r","o","m"," ","a"," ","i","m","p","o","r","t"," ","(","b",")"," ","#">>, \* 'from a import (b) #'
    <<"i","m","p","o","r","t"," ","a",";","'","b"," ","c","'">>,             \* "import a;'b c'"
    <<"i","m","p","o","r","t"," ","c"," ","\\">>,                            \* 'import c \\'
    <<"f","r","o","m"," ","a"," ","i","m","p","o","r","t"," ","(","c",",">>, \* 'from a import (c,'
    <<" "," ","b",")">>,                                                     \* '  b)'
    <<"f","r","o","m"," ","i","m","p","o","r","t"," ">>,                     \* 'from import '
    <<"i","m","p","o","r","t"," ","a"," ","a","s">>,                         \* 'import a as'
    <<"i","m","p","o","r","t"," ","a","a","a","a","a","a","a","a","a","a",","," ","b","b","b","b","b","b","b","b","b">>, \* 'import aaaaaaaaaa, bbbbbbbbb'
    <<"d","e","f","a","u","l","t"," ","="," ","1">> \* 'default = 1'
    }

RECURSIVE LineLists(_)
\* the lists of at most n source lines, the empty list left out: str.split
\* returns at least one piece
LineLists(n) ==
    IF n = 0 THEN {}
    ELSE {<<l>> : l \in SourceLines} \cup LineLists(n - 1)
         \cup {Append(ls, l) : ls \in {x \in LineLists(n - 1) : Len(x) = n - 1}, l \in SourceLines}

\* the file contents SortImports is given
Inputs == {Join(ls, <<"\n">>) : ls \in LineLists(MaxLines)}

\* the setting overrides SortImports is given
Configs == {
    default,
    [default EXCEPT !.forced_separate = <<<<"c">>>>, !.known_third_party = {<<"B">>}],
    [default EXCEPT !.length_sort = TRUE, !.force_to_top = {<<"b">>}],
    [default EXCEPT !.force_to_top = {<<"B">>}],
    [default EXCEPT !.remove_imports = {<<"a",".","b">>}, !.add_imports = <<<<"i","m","p","o","r","t"," ","o","s">>>>] }

(***************************************************************************)
(* The state of a SortImports object and of the run that builds it.        *)
(***************************************************************************)
VARIABLES
    file_contents,   \* the text given to SortImports
    config,          \* self.config
    in_lines,        \* self.in_lines
    original_length, \* self.original_length
    out_lines,       \* self.out_lines
    imports,         \* self.imports: section -> [straight: set, from: module -> set of symbols]
    as_map,          \* self.as_map
    index,           \* self.index
    import_index,    \* self.import_index
    in_quote,        \* _parse's local in_quote: <<>> for False, else the open delimiter
    formatted,       \* _add_formatted_imports' local output, as spliced in
    length_change,   \* self.length_change
    output,          \* self.output
    pc,              \* where __init__ stands: "parse", "finish", "done", "skipped", "raised"
    run,             \* 1: the given text is being sorted; 2: the output of run 1 is
    first_output,    \* the output of run 1
    call,            \* the arguments of a call of a pure helper
    result           \* what the call returned

engine == <<file_contents, config, in_lines, original_length, out_lines, imports, as_map, index,
            import_index, in_quote, formatted, length_change, output, pc, run, first_output>>

vars == <<file_contents, config, in_lines, original_length, out_lines, imports, as_map, index,
          import_index, in_quote, formatted, length_change, output, pc, run, first_output, call, result>>

\* self.number_of_lines
number_of_lines == Len(in_lines)

\* _at_end
_at_end == index = number_of_lines

NoCall == [fn |-> "none"]

\* __init__, lines 139-156: the fields before _parse runs
Construct(contents, settings, lines, position) ==
    /\ file_contents = contents
    /\ config = settings
    /\ in_lines = lines
    /\ original_length = Len(SplitOn(contents, "\n"))
    /\ out_lines = <<>>
    /\ imports = [section \in Range(SectionKeys(settings)) |-> [straight |-> {}, from |-> <<>>]]
    /\ as_map = <<>>
    /\ index = 0
    /\ import_index = -1
    /\ in_quote = <<>>
    /\ formatted = <<>>
    /\ length_change = 0
    /\ output = <<>>
    /\ pc = position

\* in_lines as __init__ builds it (lines 142-145)
InLines(contents, settings) == SplitOn(contents, "\n") \o settings.add_imports

\* line 139: a file that asks to be skipped is left alone
Entry(contents) == IF Contains(contents, <<"i","s","o","r","t",":","s","k","i","p","_","f","i","l","e">>) THEN "skipped" ELSE "parse"

Init ==
    /\ \E contents \in Inputs, settings \in Configs :
          Construct(contents, settings, InLines(contents, settings), Entry(contents))
    /\ run = 1
    /\ first_output = <<>>
    /\ call = NoCall
    /\ result = <<>>

(***************************************************************************)
(* _add_formatted_imports: the rendered block.                             *)
(***************************************************************************)
RECURSIVE StraightOutput(_)
\* lines 265-273: one line per straight module, in the sorted order given
StraightOutput(straight_modules) ==
    IF straight_modules = <<>> THEN <<>>
    ELSE LET module == straight_modules[1]
         IN  (IF module \in config.remove_imports THEN <<>>
              ELSE IF module \in DOMAIN as_map
                   THEN <<<<"i","m","p","o","r","t"," ">> \o module \o <<" ","a","s"," ">> \o as_map[module]>>
                   ELSE <<<<"i","m","p","o","r","t"," ">> \o module>>)
             \o StraightOutput(Tail(straight_modules))

\* lines 285-319: the entries of one from-module, its symbols in the sorted order given
FromOutput(module, sorted_imports) ==
    LET import_start == <<"f","r","o","m"," ">> \o module \o <<" ","i","m","p","o","r","t"," ">>
        qualified(symbol) == module \o <<".">> \o symbol
        from_imports == SelectSeq(sorted_imports, LAMBDA s : qualified(s) \notin config.remove_imports)
        aliased == SelectSeq(from_imports, LAMBDA s : qualified(s) \in DOMAIN as_map)
        plain == SelectSeq(from_imports, LAMBDA s : qualified(s) \notin DOMAIN as_map)
    IN  [i \in DOMAIN aliased |-> import_start \o aliased[i] \o <<" ","a","s"," ">> \o as_map[qualified(aliased[i])]]
        \o (IF plain = <<>> THEN <<>>
            ELSE IF <<"*">> \in Range(plain) THEN <<import_start \o <<"*">>>>
            ELSE <<Join([i \in DOMAIN plain |-> import_start \o plain[i]], <<"\n">>)>>)

RECURSIVE FromModulesOutput(_, _)
\* lines 281-319: the entries of the from-modules of a section, in the sorted
\* order given; each module's symbols are sorted in turn
FromModulesOutput(section, from_modules) ==
    IF from_modules = <<>> THEN {<<>>}
    ELSE LET module == from_modules[1]
             rests == FromModulesOutput(section, Tail(from_modules))
         IN  IF module \in config.remove_imports THEN rests
             ELSE {FromOutput(module, symbols) \o rest :
                      symbols \in Sorted(imports[section].from[module], config), rest \in rests}

\* lines 258-322: what one section appends to output
SectionOutput(section) ==
    LET straight == imports[section].straight
        from_names == DOMAIN imports[section].from
        separator == IF straight # {} \/ from_names # {} THEN <<<<>>>> ELSE <<>>
    IN  {StraightOutput(straight_modules) \o from_output \o separator :
            straight_modules \in Sorted(straight, config),
            from_output \in UNION {FromModulesOutput(section, from_modules) :
                                       from_modules \in Sorted(from_names, config)}}

RECURSIVE SectionsOutput(_)
\* line 257: the sections in the order of the keys given
SectionsOutput(keys) ==
    IF keys = <<>> THEN {<<>>}
    ELSE {first \o rest : first \in SectionOutput(keys[1]), rest \in SectionsOutput(Tail(keys))}

RECURSIVE DropTrailingBlank(_)
\* lines 324-325
DropTrailingBlank(lines) ==
    IF lines # <<>> /\ Strip(lines[Len(lines)]) = <<>>
    THEN DropTrailingBlank(SubSeq(lines, 1, Len(lines) - 1))
    ELSE lines

\* the blocks _add_formatted_imports can render from the buckets
FormattedOutputs == {DropTrailingBlank(o) : o \in SectionsOutput(SectionKeys(config))}

RECURSIVE PopBlankAt(_, _)
\* lines 330-331: drop the blank lines found at 0-based position imports_tail
PopBlankAt(lines, imports_tail) ==
    IF imports_tail < Len(lines) /\ Strip(lines[imports_tail + 1]) = <<>>
    THEN PopBlankAt(SubSeq(lines, 1, imports_tail) \o SubSeq(lines, imports_tail + 2, Len(lines)), imports_tail)
    ELSE lines

\* lines 333-339: the blank lines put between the block and what follows it
Padding(lines, imports_tail) ==
    IF Len(lines) > imports_tail
    THEN LET next_construct == lines[imports_tail + 1]
         IN  IF StartsWith(next_construct, <<"d","e","f">>) \/ StartsWith(next_construct, <<"c","l","a","s","s">>)
                \/ StartsWith(next_construct, <<"@">>)
             THEN <<<<>>, <<>>>>
             ELSE <<<<>>>>
    ELSE <<>>

\* lines 327-339: out_lines with the block spliced in at the import anchor
Spliced(lines, anchor, block) ==
    LET at == Min(anchor, Len(lines))
        inserted == SubSeq(lines, 1, at) \o block \o SubSeq(lines, at + 1, Len(lines))
        imports_tail == anchor + Len(block)
        popped == PopBlankAt(inserted, imports_tail)
    IN  SubSeq(popped, 1, imports_tail) \o Padding(popped, imports_tail)
        \o SubSeq(popped, imports_tail + 1, Len(popped))

(***************************************************************************)
(* The steps of __init__.                                                  *)
(***************************************************************************)
\* one turn of _parse's loop (lines 344-412): a line is copied to out_lines, or
\* the statement it starts is read, tokenised and filed
ParseLine ==
    /\ pc = "parse"
    /\ ~_at_end
    /\ LET line == in_lines[index + 1]
           skip_line == in_quote # <<>>
           import_type == _import_type(line)
       IN  /\ in_quote' = QuoteAfter(line, in_quote)
           /\ IF import_type = "none" \/ skip_line
              THEN /\ out_lines' = Append(out_lines, line)
                   /\ index' = index + 1
                   /\ UNCHANGED <<imports, as_map, import_index, pc>>
              ELSE LET statement == ExtractStatement(in_lines, line, index + 1)
                       found == Aliases(Tokens(statement.import_string), as_map, import_type)
                       empty == import_type = "from" /\ found.imports = <<>>
                   IN  /\ import_index' = IF import_index = -1 THEN index ELSE import_index
                       /\ index' = statement.index
                       /\ UNCHANGED out_lines
                       /\ IF statement.raised
                          THEN /\ pc' = "raised"
                               /\ UNCHANGED <<imports, as_map>>
                          ELSE IF found.raised \/ empty
                          THEN /\ pc' = "raised"
                               /\ as_map' = found.as_map
                               /\ UNCHANGED imports
                          ELSE /\ pc' = pc
                               /\ as_map' = found.as_map
                               /\ imports' =
                                    IF import_type = "from"
                                    THEN AddFrom(imports,
                                                 place_module(found.imports[1], config, PYTHONPATH),
                                                 found.imports[1], Range(Tail(found.imports)))
                                    ELSE AddStraight(imports, found.imports, config, PYTHONPATH)
    /\ UNCHANGED <<file_contents, config, in_lines, original_length, formatted, length_change,
                   output, run, first_output, call, result>>

\* lines 158-159 and _add_formatted_imports: with an import found, the block
\* is rendered and spliced in at the anchor
AddFormattedImports ==
    /\ pc = "parse"
    /\ _at_end
    /\ import_index # -1
    /\ \E block \in FormattedOutputs :
          /\ formatted' = block
          /\ out_lines' = Spliced(out_lines, import_index, block)
    /\ pc' = "finish"
    /\ UNCHANGED <<file_contents, config, in_lines, original_length, imports, as_map, index,
                   import_index, in_quote, length_change, output, run, first_output, call, result>>

\* the end of the file left as it is, before the final empty line
Normalised_keeps_blank_lines(lines) == Append(lines, <<>>)

\* lines 162-164
Normalised(lines) == Append(DropTrailingBlank(lines), <<>>)

\* lines 161-166: the end of the file is normalised and the output joined
Finish ==
    /\ \/ pc = "finish"
       \/ pc = "parse" /\ _at_end /\ import_index = -1
    /\ length_change' = Len(out_lines) - original_length
    /\ out_lines' = Normalised(out_lines)
    /\ output' = Join(Normalised(out_lines), <<"\n">>)
    /\ pc' = "done"
    /\ UNCHANGED <<file_contents, config, in_lines, original_length, imports, as_map, index,
                   import_index, in_quote, formatted, run, first_output, call, result>>

\* SortImports is run again, on the output of the first run, with the same settings
Resort ==
    /\ pc = "done"
    /\ run = 1
    /\ run' = 2
    /\ first_output' = output
    /\ file_contents' = output
    /\ in_lines' = InLines(output, config)
    /\ original_length' = Len(SplitOn(output, "\n"))
    /\ out_lines' = <<>>
    /\ imports' = [section \in Range(SectionKeys(config)) |-> [straight |-> {}, from |-> <<>>]]
    /\ as_map' = <<>>
    /\ index' = 0
    /\ import_index' = -1
    /\ in_quote' = <<>>
    /\ formatted' = <<>>
    /\ length_change' = 0
    /\ output' = <<>>
    /\ pc' = Entry(output)
    /\ UNCHANGED <<config, call, result>>

Next == ParseLine \/ AddFormattedImports \/ Finish \/ Resort

Spec == Init /\ [][Next]_vars

(***************************************************************************)
(* Calls of the pure helpers, on arguments drawn from small sets.          *)
(***************************************************************************)
\* no SortImports object is being built
Idle == Construct(<<>>, default, <<>>, "idle") /\ run = 0 /\ first_output = <<>>

\* the module names place_module is called with
ModuleNames == {
    <<"o","s">>, <<"o","s","s">>, <<"o","s",".","p","a","t","h">>, <<"o","s","x",".","p","a","t","h">>, <<"a">>, <<"a",".","b">>, <<"a","b">>, <<"b">>, <<"b",".","c">>, <<"c">>,
    <<".","x">>, <<"_","_","f","u","t","u","r","e","_","_">>, <<"_","_","f","u","t","u","r","e","_","_",".","x">>, <<"_","_","f","u","t","u","r","e","_","_","s">> }

\* the settings place_module is called with
PlaceConfigs == {
    default,
    [default EXCEPT !.forced_separate = <<<<"a",".","b">>, <<"a">>>>, !.default_section = "THIRDPARTY"],
    [default EXCEPT !.known_third_party = {<<"a">>}, !.known_first_party = {<<"a">>, <<"b">>},
                    !.default_section = "STDLIB"],
    [default EXCEPT !.forced_separate = <<<<"o">>>>, !.known_standard_library = {<<"a">>, <<"b">>},
                    !.known_third_party = {<<"b">>}, !.default_section = "LOCALFOLDER"] }

\* the module search paths place_module is called under
SearchPaths == {<<>>, <<"none", "none">>, <<"none", "THIRDPARTY">>, <<"STDLIB", "FIRSTPARTY">>}

InitPlace ==
    /\ Idle
    /\ \E moduleName \in ModuleNames, settings \in PlaceConfigs, path \in SearchPaths :
          call = [fn |-> "place_module", moduleName |-> moduleName, config |-> settings, path |-> path]
    /\ result = <<>>

\* place_module is called
PlaceModule ==
    /\ call.fn = "place_module"
    /\ result = <<>>
    /\ result' = <<place_module(call.moduleName, call.config, call.path)>>
    /\ UNCHANGED <<call, engine>>

NextPlace == PlaceModule

SpecPlace == InitPlace /\ [][NextPlace]_vars

\* the statement prefixes, symbols, indentations and widths a renderer is called with
Statements == {<<"f","r","o","m"," ","a"," ","i","m","p","o","r","t"," ">>, <<"f","r","o","m"," ","a",".","b"," ","i","m","p","o","r","t"," ">>}

Symbols == {<<"b">>, <<"c","c","c">>, <<"d","d","d","d","d">>}

RECURSIVE SymbolLists(_)
\* the lists of 1 to n symbols
SymbolLists(n) ==
    IF n = 0 THEN {}
    ELSE {<<s>> : s \in Symbols} \cup SymbolLists(n - 1)
         \cup {Append(l, s) : l \in {x \in SymbolLists(n - 1) : Len(x) = n - 1}, s \in Symbols}

Spaces(n) == [i \in 1..n |-> " "]

Indents == {Spaces(2), Spaces(4)}

LineLengths == 19..24

InitRender ==
    /\ Idle
    /\ \E statement \in Statements, symbols \in SymbolLists(MaxSymbols), indent \in Indents,
          line_length \in LineLengths :
          call = [fn |-> "pending", statement |-> statement, imports |-> symbols,
                  white_space |-> Spaces(Len(statement) + 1), indent |-> indent,
                  line_length |-> line_length]
    /\ result = <<>>

\* a renderer is called on the pending arguments
Render(fn, text) ==
    /\ call.fn = "pending"
    /\ call' = [call EXCEPT !.fn = fn]
    /\ result' = text
    /\ UNCHANGED engine

OutputGrid ==
    Render("_output_grid",
           _output_grid(call.statement, call.imports, call.white_space, call.indent, call.line_length))

OutputVerticalGrid ==
    Render("_output_vertical_grid",
           _output_vertical_grid(call.statement, call.imports, call.white_space, call.indent,
                                 call.line_length))

OutputVerticalGridGrouped ==
    Render("_output_vertical_grid_grouped",
           _output_vertical_grid_grouped(call.statement, call.imports, call.white_space, call.indent,
                                         call.line_length))

NextRender == OutputGrid \/ OutputVerticalGrid \/ OutputVerticalGridGrouped

SpecRender == InitRender /\ [][NextRender]_vars

(***************************************************************************)
(* Readers of rendered text, used to state the properties.                 *)
(***************************************************************************)
RECURSIVE Flatten(_)
Flatten(lists) == IF lists = <<>> THEN <<>> ELSE lists[1] \o Flatten(Tail(lists))

\* the physical lines of a list of entries: an entry may hold several
PhysicalLines(entries) == Flatten([i \in DOMAIN entries |-> SplitOn(entries[i], "\n")])

\* the physical lines of the rendered block that hold a statement
RenderedLines == SelectSeq(PhysicalLines(formatted), LAMBDA l : l # <<>>)

\* the module a rendered statement names: its second word
ModuleOf(line) == SplitWs(line)[2]

\* the section a rendered statement belongs to
SectionOf(line) == place_module(ModuleOf(line), config, PYTHONPATH)

IsStraightLine(line) == StartsWith(line, <<"i","m","p","o","r","t"," ">>)

\* the run of SortImports on the given text has ended with an output
Sorted1 == pc = "done" /\ run = 1

(***************************************************************************)
(* C1: idempotence.                                                        *)
(***************************************************************************)
\* C1: running SortImports on the output of a previous run, with the same
\* configuration, yields that output again, byte for byte.
C1_Idempotent == (pc = "done" /\ run = 2) => output = first_output

(***************************************************************************)
(* C2: pass-through fidelity.                                              *)
(***************************************************************************)
RECURSIVE StatementEnd(_, _, _)
\* the 0-based position after the statement whose line at position k is being
\* read, as the claim has it: a parenthesised statement ends on the line on
\* which its parenthesis closes, another on the first line without a trailing
\* backslash, and both end with the file
StatementEnd(lines, k, parenthesised) ==
    LET text == Strip(_strip_comments(lines[k + 1]))
    IN  IF k + 1 >= Len(lines) THEN Len(lines)
        ELSE IF parenthesised
             THEN IF EndsWith(text, <<")">>) THEN k + 1 ELSE StatementEnd(lines, k + 1, TRUE)
        ELSE IF EndsWith(text, <<"\\">>) THEN StatementEnd(lines, k + 1, FALSE)
        ELSE k + 1

RECURSIVE OutsideImports(_, _, _)
\* the lines outside the import region, in order: those that neither begin an
\* import statement nor continue one
OutsideImports(lines, k, quote) ==
    IF k >= Len(lines) THEN <<>>
    ELSE LET line == lines[k + 1]
         IN  IF _import_type(line) = "none" \/ quote # <<>>
             THEN <<line>> \o OutsideImports(lines, k + 1, QuoteAfter(line, quote))
             ELSE OutsideImports(lines, StatementEnd(lines, k, "(" \in Range(_strip_comments(line))),
                                 QuoteAfter(line, quote))

\* C2: every input line outside the import region is passed through exactly
\* once, unchanged and in order: when the parse pass ends, the pass-through
\* buffer holds exactly those lines, and the extractor has consumed no line
\* after the one that ends a statement.
C2_PassThrough ==
    (pc = "parse" /\ run = 1 /\ _at_end) => out_lines = OutsideImports(in_lines, 0, <<>>)

(***************************************************************************)
(* C3: merge correctness.                                                  *)
(***************************************************************************)
\* from-imports of module a without aliases
PlainFromA == {<<"f","r","o","m"," ","a"," ","i","m","p","o","r","t"," ","c",","," ","b">>, <<"f","r","o","m"," ","a"," ","i","m","p","o","r","t"," ","b">>}

\* the symbols the from-imports of a list of lines name
SymbolsOf(lines) == UNION {Range(Tail(Tokens(lines[i]))) : i \in {j \in DOMAIN lines : lines[j] \in PlainFromA}}

\* C3: several from-imports of one module, without aliases and under the
\* default configuration, are rendered as exactly one statement for that
\* module, which lists the union of their symbols in sorted order.
C3_OneMergedStatement ==
    (/\ Sorted1
     /\ config = default
     /\ Range(in_lines) \subseteq PlainFromA \cup {<<>>}
     /\ Cardinality({i \in DOMAIN in_lines : in_lines[i] \in PlainFromA}) >= 2)
    => \E symbols \in Sorted(SymbolsOf(in_lines), config) :
          SelectSeq(SplitOn(output, "\n"), LAMBDA l : l # <<>>)
             = <<<<"f","r","o","m"," ","a"," ","i","m","p","o","r","t"," ">> \o Join(symbols, <<",", " ">>)>>

(***************************************************************************)
(* C4: semantic preservation.                                              *)
(***************************************************************************)
\* single-line import statements, with and without aliases
SimpleImports == {<<"i","m","p","o","r","t"," ","o","s">>, <<"i","m","p","o","r","t"," ","B",","," ","A",","," ","a">>, <<"f","r","o","m"," ","a"," ","i","m","p","o","r","t"," ","c",","," ","b">>, <<"f","r","o","m"," ","a"," ","i","m","p","o","r","t"," ","b">>, <<"f","r","o","m"," ","a"," ","i","m","p","o","r","t"," ","b"," ","a","s"," ","d">>, <<"i","m","p","o","r","t"," ","a"," ","a","s"," ","b">>}

RECURSIVE NamesBound(_)
\* the <<name, alias>> pairs of a comma list that is given as its words; the
\* alias is <<>> when the name has none
NamesBound(words) ==
    IF words = <<>> THEN {}
    ELSE IF Len(words) >= 3 /\ words[2] = AS
         THEN {<<words[1], words[3]>>} \cup NamesBound(SubSeq(words, 4, Len(words)))
    ELSE {<<words[1], <<>>>>} \cup NamesBound(Tail(words))

\* the bindings a single-line import statement denotes: [module, symbol, alias],
\* the symbol <<>> for a straight import
BindingsOfLine(line) ==
    LET words == SplitWs(Replace(line, <<",">>, <<" ">>))
    IN  IF words = <<>> THEN {}
        ELSE IF words[1] = <<"i","m","p","o","r","t">>
             THEN {[module |-> b[1], symbol |-> <<>>, alias |-> b[2]] : b \in NamesBound(Tail(words))}
        ELSE IF words[1] = <<"f","r","o","m">> /\ Len(words) >= 3
             THEN {[module |-> words[2], symbol |-> b[1], alias |-> b[2]] :
                      b \in NamesBound(SubSeq(words, 4, Len(words)))}
        ELSE {}

BindingsOf(lines) == UNION {BindingsOfLine(lines[i]) : i \in DOMAIN lines}

\* C4: with add_imports and remove_imports empty, the import statements of the
\* output denote exactly the bindings the import statements of the input denote.
C4_SameBindings ==
    (/\ Sorted1
     /\ config.add_imports = <<>> /\ config.remove_imports = {}
     /\ Range(in_lines) \subseteq SimpleImports \cup {<<>>})
    => BindingsOf(SplitOn(output, "\n")) = BindingsOf(in_lines)

(***************************************************************************)
(* C5: section order.                                                      *)
(***************************************************************************)
\* C5: in the rendered block every line of an earlier section precedes every
\* line of a later section, in the order FUTURE, STDLIB, THIRDPARTY,
\* FIRSTPARTY, LOCALFOLDER, then the forced-separate sections as configured.
C5_SectionOrder ==
    \A i, j \in DOMAIN RenderedLines :
        i < j => SectionOf(RenderedLines[i]) <= SectionOf(RenderedLines[j])

\* a block that holds a forced-separate section after a numbered one
C5_Witness ==
    /\ pc = "done"
    /\ \E i, j \in DOMAIN RenderedLines :
          /\ SectionOf(RenderedLines[i]) = SECTIONS["STDLIB"]
          /\ SectionOf(RenderedLines[j]) = ForcedKey(1)

(***************************************************************************)
(* C7: alphabetical order.                                                 *)
(***************************************************************************)
\* C7: with force_to_top empty and length_sort off, the straight imports of a
\* section are rendered in the case-insensitive lexicographic order of their
\* module names.
C7_Alphabetical ==
    (config.force_to_top = {} /\ ~config.length_sort)
    => \A i, j \in DOMAIN RenderedLines :
          (/\ i < j
           /\ IsStraightLine(RenderedLines[i]) /\ IsStraightLine(RenderedLines[j])
           /\ SectionOf(RenderedLines[i]) = SectionOf(RenderedLines[j]))
          => StrLessEq(Lower(ModuleOf(RenderedLines[i])), Lower(ModuleOf(RenderedLines[j])))

\* a section rendered with an upper-case module name after a lower-case one
\* that the code points alone would put behind it
C7_Witness ==
    /\ pc = "done"
    /\ config.force_to_top = {} /\ ~config.length_sort
    /\ \E i, j \in DOMAIN RenderedLines :
          /\ i < j
          /\ IsStraightLine(RenderedLines[i]) /\ IsStraightLine(RenderedLines[j])
          /\ SectionOf(RenderedLines[i]) = SectionOf(RenderedLines[j])
          /\ StrLess(Lower(ModuleOf(RenderedLines[i])), Lower(ModuleOf(RenderedLines[j])))
          /\ StrLess(ModuleOf(RenderedLines[j]), ModuleOf(RenderedLines[i]))

(***************************************************************************)
(* C9: a file without imports.                                             *)
(***************************************************************************)
\* no import statement was detected in the given text, and none was added
NoImport == Sorted1 /\ import_index = -1 /\ config.add_imports = <<>>

\* C9, as claimed: a file in which no import is detected comes out
\* byte-identical, whatever its trailing newline or trailing blank lines are.
C9_Unchanged == NoImport => output = file_contents

RECURSIVE Terminated(_)
\* each line followed by a newline
Terminated(lines) == IF lines = <<>> THEN <<>> ELSE lines[1] \o <<"\n">> \o Terminated(Tail(lines))

\* the position of the last line that is not blank, 0 if there is none
LastNonBlank(lines) ==
    LET full == {i \in DOMAIN lines : \E k \in DOMAIN lines[i] : ~IsSpace(lines[i][k])}
    IN  IF full = {} THEN 0 ELSE CHOOSE i \in full : \A j \in full : j <= i

\* C9, amended: a file in which no import is detected comes out with its
\* lines unchanged up to the last non-blank one, each ended by one newline;
\* the blank lines after it, and a missing final newline, are not kept.
C9_UnchangedUpToEnd ==
    NoImport =>
        LET lines == SplitOn(file_contents, "\n")
        IN  output = Terminated(SubSeq(lines, 1, LastNonBlank(lines)))

\* a file without imports that comes out changed at its end only
C9_Witness == NoImport /\ output # <<>> /\ output # file_contents

(***************************************************************************)
(* C10: malformed statements.                                              *)
(***************************************************************************)
\* C10: for every input the parse pass completes without raising an error
\* and without reading past the last line of the line buffer.
C10_ParseCompletes == pc # "raised" /\ index <= number_of_lines

(***************************************************************************)
(* C6: section classification.                                             *)
(***************************************************************************)
\* the first dotted component of a module name: the name itself when it has no dot
FirstComponent(moduleName) == SplitOn(moduleName, ".")[1]

\* the section the rules of the claim give, first match first, when the
\* search path holds nothing
PlacedByRules(moduleName, settings) ==
    LET names == {moduleName, FirstComponent(moduleName)}
        forced == {k \in DOMAIN settings.forced_separate : StartsWith(moduleName, settings.forced_separate[k])}
    IN  IF StartsWith(moduleName, <<".">>) THEN SECTIONS["LOCALFOLDER"]
        ELSE IF forced # {} THEN ForcedKey(CHOOSE k \in forced : \A j \in forced : k <= j)
        ELSE IF <<"_","_","f","u","t","u","r","e","_","_">> \in names THEN SECTIONS["FUTURE"]
        ELSE IF names \cap settings.known_standard_library # {} THEN SECTIONS["STDLIB"]
        ELSE IF names \cap settings.known_third_party # {} THEN SECTIONS["THIRDPARTY"]
        ELSE IF names \cap settings.known_first_party # {} THEN SECTIONS["FIRSTPARTY"]
        ELSE SECTIONS[settings.default_section]

\* C6: when the search path holds nothing, place_module returns the section of
\* the first matching rule; a table places a name only when the whole name or
\* its first dotted component is an element of the table.
C6_PlacedByRules ==
    (call.fn = "place_module" /\ result # <<>> /\ ProbePath(call.path) = "none")
    => result[1] = PlacedByRules(call.moduleName, call.config)

(***************************************************************************)
(* C8: the line-length bound of the grid renderers.                        *)
(***************************************************************************)
Rendered == call.fn \in {"_output_grid", "_output_vertical_grid", "_output_vertical_grid_grouped"}

\* C8, as claimed: every physical line of the rendered text is at most
\* line_length long, unless a single symbol alone already exceeds line_length.
C8_WithinLineLength ==
    Rendered =>
        \/ \E i \in DOMAIN call.imports : Len(call.imports[i]) > call.line_length
        \/ \A line \in Range(SplitOn(result, "\n")) : Len(line) <= call.line_length

\* C8, amended: every physical line of the rendered text that holds two or
\* more symbols is at most line_length long; a longer line holds at most one
\* symbol, after the statement prefix or the indentation.
C8_PackedWithinLineLength ==
    Rendered =>
        \A line \in Range(SplitOn(result, "\n")) :
            Contains(line, <<",", " ">>) => Len(line) <= call.line_length

\* a wrapped rendering with a full line of two symbols beside a line that is too long
C8_Witness ==
    /\ Rendered
    /\ \E line \in Range(SplitOn(result, "\n")) :
          Contains(line, <<",", " ">>) /\ Len(line) = call.line_length
    /\ \E line \in Range(SplitOn(result, "\n")) : Len(line) > call.line_length

(***************************************************************************)
(* C11: length sort.                                                       *)
(***************************************************************************)
\* the names a rendered line holds: the words after its keyword
NamesOf(line) == Range(Tail(SplitWs(line)))

\* no name of the rendered block is in force_to_top, as written or lowered
NoneForced ==
    \A i \in DOMAIN RenderedLines : \A name \in NamesOf(RenderedLines[i]) :
        name \notin config.force_to_top /\ Lower(name) \notin config.force_to_top

\* the pair (length as an integer, lowered name) of a comes at or before that of b
LengthLessEq(a, b) == Len(a) < Len(b) \/ (Len(a) = Len(b) /\ StrLessEq(Lower(a), Lower(b)))

\* C11: with length_sort on and no name in force_to_top, the straight imports
\* of a section are rendered in ascending order of the pair (length of the
\* name as an integer, lowered name): a shorter name never follows a longer
\* one, whatever the number of decimal digits of the lengths.
C11_LengthOrder ==
    (config.length_sort /\ NoneForced)
    => \A i, j \in DOMAIN RenderedLines :
          (/\ i < j
           /\ IsStraightLine(RenderedLines[i]) /\ IsStraightLine(RenderedLines[j])
           /\ SectionOf(RenderedLines[i]) = SectionOf(RenderedLines[j]))
          => LengthLessEq(ModuleOf(RenderedLines[i]), ModuleOf(RenderedLines[j]))

(***************************************************************************)
(* C12: force to top.                                                      *)
(***************************************************************************)
\* the name is one of the configured force_to_top names, letter case aside
ForcedToTop(name) == \E top \in config.force_to_top : Lower(top) = Lower(name)

\* C12: among the straight imports of a section no module that is in
\* force_to_top is rendered after a module that is not, whatever the letter
\* case of the configured name and of the module name, and whether or not
\* length_sort is on.
C12_ForcedFirst ==
    \A i, j \in DOMAIN RenderedLines :
        (/\ i < j
         /\ IsStraightLine(RenderedLines[i]) /\ IsStraightLine(RenderedLines[j])
         /\ SectionOf(RenderedLines[i]) = SectionOf(RenderedLines[j]))
        => ~(ForcedToTop(ModuleOf(RenderedLines[j])) /\ ~ForcedToTop(ModuleOf(RenderedLines[i])))

(***************************************************************************)
(* C13: quote-state safety.                                                *)
(***************************************************************************)
RECURSIVE InStringWithin(_, _, _)
\* the tracker of section 4.1 is InString at position k of the line or at
\* a later one: the state is carried as QuoteScan carries it
InStringWithin(line, k, quote) ==
    IF quote # <<>> THEN TRUE
    ELSE IF k >= Len(line) THEN FALSE
    ELSE IF line[k + 1] = "\\" THEN InStringWithin(line, k + 2, quote)
    ELSE IF line[k + 1] \in {"'", "\""} THEN TRUE
    ELSE IF line[k + 1] = "#" THEN FALSE
    ELSE InStringWithin(line, k + 1, quote)

\* the line about to be read lies fully or partially inside a string literal
PartlyInString == pc = "parse" /\ ~_at_end /\ InStringWithin(in_lines[index + 1], 0, in_quote)

\* C13: a line that lies fully or partially inside a string literal (the
\* tracker is InString at its start or at one of its positions) is never
\* treated as an import statement: reading it appends it unchanged to the
\* pass-through lines, files nothing in the buckets and leaves the anchor.
C13_QuotedNeverImport ==
    [][(PartlyInString /\ index' # index)
       => /\ out_lines' = Append(out_lines, in_lines[index + 1])
          /\ imports' = imports
          /\ import_index' = import_index]_vars

(***************************************************************************)
(* C14: blank lines after the block.                                       *)
(***************************************************************************)
\* the lines of out_lines after the rendered block, once it is spliced in
AfterBlock == SubSeq(out_lines, import_index + Len(formatted) + 1, Len(out_lines))

RECURSIVE LeadingBlank(_)
\* the number of blank lines a list of lines starts with
LeadingBlank(lines) ==
    IF lines # <<>> /\ Strip(lines[1]) = <<>> THEN 1 + LeadingBlank(Tail(lines)) ELSE 0

\* the line begins a function definition, a class definition or a decorator
BeginsDefinition(line) ==
    \/ StartsWith(line, <<"d","e","f"," ">>)
    \/ StartsWith(line, <<"c","l","a","s","s"," ">>)
    \/ StartsWith(line, <<"@">>)

\* the block is spliced in and a non-blank line survives after it
BlockFollowed == pc = "finish" /\ LeadingBlank(AfterBlock) < Len(AfterBlock)

\* C14: when an import was found and a non-blank line survives after the
\* rendered block, the block is followed by exactly two blank lines if that
\* line begins a function definition, a class definition or a decorator, and
\* by exactly one blank line otherwise, a statement that merely starts with
\* the letters def or class included.
C14_PaddingAfterBlock ==
    BlockFollowed
    => LeadingBlank(AfterBlock)
        = IF BeginsDefinition(AfterBlock[LeadingBlank(AfterBlock) + 1]) THEN 2 ELSE 1

====
